---- MODULE Spec2Model ----
(***************************************************************************)
(* The refresh daemon of the portfolio repository (src/python/daemon.py)   *)
(* over the SQLite schema of src/python/init_db.py.                        *)
(*                                                                         *)
(* Values.  A value that may be missing is a tuple: Python's None and SQL's *)
(* NULL, which sqlite3 maps to each other, are the empty tuple, a present  *)
(* value v is the one-element tuple <<v>>, and the float NaN, which Python *)
(* keeps apart from None and sqlite3 stores as NULL, is a tuple of its own.*)
(* Money and counts are integers.  Rates are in hundredths (0.04 is 4).    *)
(* The poll interval is in units of 1/1280 s, in which 0.2 s is 256, 5.0 s *)
(* is 6400 and every product by 1.5 the daemon can form is a whole number. *)
(* The clock counts whole seconds.                                         *)
(*                                                                         *)
(* Steps.  The process waits where it calls the provider, and there the    *)
(* clock, other writers and a kill of the process can act: an iteration of *)
(* fetch_and_store_batch is one step from each wait to the next, and so is *)
(* a call of fetch_and_store_fundamentals.  init_db is one step for each   *)
(* change it makes to the file, every CREATE TABLE being committed on its  *)
(* own.                                                                    *)
(***************************************************************************)
EXTENDS Integers, Sequences, FiniteSets, TLC

VARIABLES
    db,                 \* the SQLite file: [disk, view, in_txn, exists, tables]
    now,                \* time.time(), seconds
    pc,                 \* where the daemon process is
    sleep_time,         \* run_daemon's sleep_time
    last_refresh_time,  \* run_daemon's last_refresh_time
    requests,           \* run_daemon's requests (the SELECT's result)
    tickers,            \* fetch_and_store_batch's tickers
    pos,                \* position in tickers of the for loop
    batch_ret,          \* who called fetch_and_store_batch
    universe,           \* refresh_all_tickers' tickers
    off,                \* refresh_all_tickers' i
    refresh_ret,        \* who called refresh_all_tickers
    handed,             \* history: request id -> times given to the Batch Fetcher
    iter,               \* history: what the current loop iteration did
    idle,               \* history: the current run of idle iterations
    fetched,            \* the ticker in hand, its t and date, how far it got,
                        \* and where fetch_and_store_fundamentals returns to
    probe,              \* the provider object a direct call is made with
    setup,              \* init_db's overwrite, its caller, the table it makes next
    tickers_db          \* whether the file tickers.db exists

vars == <<db, now, pc, sleep_time, last_refresh_time, requests, tickers, pos,
          batch_ret, universe, off, refresh_ret, handed, iter, idle, fetched,
          probe, setup, tickers_db>>

----------------------------------------------------------------------------
(* Values that may be missing *)

Null == <<>>
Num(v) == <<v>>
Str(s) == <<s>>

\* float('nan'): not None, not equal to 0, and true in a condition
NaN == <<"nan", "nan">>

\* sqlite3 binds a float NaN as NULL; every other value goes in as it is
Sql(v) == IF v = NaN THEN Null ELSE v

\* a * b of two floats, neither of them None
Mul(a, b) == IF a = NaN \/ b = NaN THEN NaN ELSE Num(a[1] * b[1])

Min(a, b) == IF a <= b THEN a ELSE b
AbsInt(a) == IF a < 0 THEN 0 - a ELSE a

\* {} ; None, which also has no key, is the same value
EmptyDict == <<>>

\* dict.get(key, default) and Series.get(key, default): the value under the
\* key when the key is there, whatever the value is, and else the default.
Get(d, key, default) == IF key \in DOMAIN d THEN d[key] ELSE default

\* float(x) of a number or of a NaN; float(None) raises TypeError
float(x) == x

\* abs(x) of a float; abs(nan) is nan
absf(x) == IF x \in {Null, NaN} THEN x ELSE Num(AbsInt(x[1]))

----------------------------------------------------------------------------
(* Program constants *)

BATCH_SIZE == 50
SLEEP_IDLE == 6400
SLEEP_ACTIVE == 256
REFRESH_INTERVAL == 300

growth_rate == 3
rf == 4
rm == 8
tax_rate == 21

\* seconds in the calendar day of SQLite's DATE('now')
DAY == 86400

----------------------------------------------------------------------------
(* The database *)

\* the tables of init_db, in the order it creates them
Schema == <<"prices", "price_history", "update_requests", "stocks",
            "balance_sheet", "income_statement", "cashflow_statement",
            "valuations">>

\* AUTOINCREMENT tables keep their last id in sqlite_sequence
EmptyTables ==
    [stocks |-> {}, prices |-> {}, price_history |-> {},
     balance_sheet |-> {}, income_statement |-> {}, cashflow_statement |-> {},
     update_requests |-> {},
     sqlite_sequence |-> [balance_sheet |-> 0, income_statement |-> 0,
                          cashflow_statement |-> 0, update_requests |-> 0]]

\* The primary key of each table.
PrimaryKey(table) ==
    CASE table = "stocks" -> {"ticker"}
      [] table = "prices" -> {"ticker"}
      [] table = "price_history" -> {"ticker", "date"}
      [] OTHER -> {"id"}

Conflicts(table, r, row) == \A k \in PrimaryKey(table) : r[k] = row[k]

\* INSERT OR REPLACE: rows with the new row's primary key are deleted first.
InsertOrReplace(t, table, row) ==
    [t EXCEPT ![table] = {r \in @ : ~Conflicts(table, r, row)} \cup {row}]

\* INSERT OR IGNORE: a row with the new row's primary key keeps the new one out.
InsertOrIgnore(t, table, row) ==
    IF \E r \in t[table] : Conflicts(table, r, row)
    THEN t
    ELSE [t EXCEPT ![table] = @ \cup {row}]

\* An insert that names no id into a table with id INTEGER PRIMARY KEY
\* AUTOINCREMENT: the row gets the next id.
WithNextId(t, table, cols) ==
    LET id == t.sqlite_sequence[table] + 1
    IN  [row |-> [id |-> id] @@ cols,
         tables |-> [t EXCEPT !.sqlite_sequence[table] = id]]

\* no file at the database's path: nothing is stored
NoStore == [disk |-> EmptyTables, view |-> EmptyTables, in_txn |-> FALSE,
            exists |-> FALSE, tables |-> {}]

\* the file as init_db leaves it: every table, and no row
NewStore == [NoStore EXCEPT !.exists = TRUE,
                            !.tables = {Schema[j] : j \in 1..Len(Schema)}]

\* conn.execute of a writing statement: sqlite3 opens the transaction
Execute(d, t) == [d EXCEPT !.view = t, !.in_txn = TRUE]

\* conn.commit()
Commit(d) == [d EXCEPT !.disk = d.view, !.in_txn = FALSE]

\* the process dies: the open transaction is rolled back
Rollback(d) == [d EXCEPT !.view = d.disk, !.in_txn = FALSE]

----------------------------------------------------------------------------
(* fetch_and_store_fundamentals *)

FieldNames ==
    {"Total Assets",
     "Total Liabilities Net Minority Interest",
     "Total Non Current Liabilities Net Minority Interest",
     "Total Debt", "Long Term Debt",
     "Cash And Cash Equivalents",
     "Cash Cash Equivalents And Short Term Investments",
     "EBIT", "EBITDA", "Operating Income",
     "Net Income", "Net Income Continuous Operations",
     "Total Revenue", "Operating Revenue",
     "Operating Cash Flow", "Cash Flow From Continuing Operating Activities",
     "Capital Expenditure", "Net PPE Purchase And Sale"}

\* the spellings of a field name with surrounding whitespace
Padded(n) == {n, " " \o n, n \o " ", " " \o n \o " "}

\* str.strip() of a label
Strip(s) ==
    IF \E n \in FieldNames : s \in Padded(n)
    THEN CHOOSE n \in FieldNames : s \in Padded(n)
    ELSE s

\* row.index = row.index.str.strip(), of a row whose stripped labels differ
StripIndex(row) ==
    [k \in {Strip(n) : n \in DOMAIN row} |->
        row[CHOOSE n \in DOMAIN row : Strip(n) = k]]

\* the VALUES of the INSERT into balance_sheet
balance_sheet_values(ticker, date, row) ==
    [ticker |-> ticker, date |-> date,
     total_assets |-> float(Get(row, "Total Assets", Num(0))),
     total_liabilities |->
        float(Get(row, "Total Liabilities Net Minority Interest",
              Get(row, "Total Non Current Liabilities Net Minority Interest", Num(0)))),
     total_debt |->
        float(Get(row, "Total Debt", Get(row, "Long Term Debt", Num(0)))),
     total_cash |->
        float(Get(row, "Cash And Cash Equivalents",
              Get(row, "Cash Cash Equivalents And Short Term Investments", Num(0))))]

\* the VALUES of the INSERT into income_statement
income_statement_values(ticker, date, row) ==
    [ticker |-> ticker, date |-> date,
     ebit |-> float(Get(row, "EBIT", Get(row, "Operating Income", Num(0)))),
     ebitda |-> float(Get(row, "EBITDA", Get(row, "Operating Income", Num(0)))),
     net_income |->
        float(Get(row, "Net Income",
              Get(row, "Net Income Continuous Operations", Num(0)))),
     total_revenue |->
        float(Get(row, "Total Revenue", Get(row, "Operating Revenue", Num(0))))]

\* the VALUES of the INSERT into cashflow_statement
cashflow_statement_values(ticker, date, row) ==
    [ticker |-> ticker, date |-> date,
     operating_cash_flow |->
        float(Get(row, "Operating Cash Flow",
              Get(row, "Cash Flow From Continuing Operating Activities", Num(0)))),
     capital_expenditures |->
        absf(float(Get(row, "Capital Expenditure",
                   Get(row, "Net PPE Purchase And Sale", Num(0)))))]

StatementValues(table, ticker, date, row) ==
    CASE table = "balance_sheet" -> balance_sheet_values(ticker, date, row)
      [] table = "income_statement" -> income_statement_values(ticker, date, row)
      [] OTHER -> cashflow_statement_values(ticker, date, row)

\* float(None) raises TypeError: a value that came out None is one whose
\* float raised, and the INSERT it was meant for is not executed
ValuesRaise(v) == \E c \in DOMAIN v \ {"ticker", "date"} : v[c] = Null

\* the values as sqlite3 binds them
Bound(v) == [c \in DOMAIN v |-> IF c \in {"ticker", "date"} THEN v[c] ELSE Sql(v[c])]

\* INSERT OR REPLACE INTO <statement table> (ticker, date, ...): the statement
\* names no id, and id is the only key of the table.
InsertStatement(t, table, ticker, date, row) ==
    LET n == WithNextId(t, table,
                        Bound(StatementValues(table, ticker, date, StripIndex(row))))
    IN  InsertOrReplace(n.tables, table, n.row)

\* for date, row in frame.T.iterrows(): one INSERT per period, in order, up
\* to the first that raises.  A frame is the sequence of its periods, each
\* <<period-end day, row>>.
RECURSIVE InsertFrame(_, _, _, _)
InsertFrame(t, table, ticker, frame) ==
    IF frame = <<>>
    THEN [tables |-> t, raised |-> FALSE]
    ELSE IF ValuesRaise(StatementValues(table, ticker, frame[1][1],
                                        StripIndex(frame[1][2])))
    THEN [tables |-> t, raised |-> TRUE]
    ELSE InsertFrame(InsertStatement(t, table, ticker, frame[1][1], frame[1][2]),
                     table, ticker, Tail(frame))

\* one statement kind: nothing happens for a frame that is None or empty;
\* the INSERT raises OperationalError when the file lacks the table; the
\* first INSERT that is executed opens the transaction
StoreFrame(d, table, ticker, frame) ==
    LET r == InsertFrame(d.view, table, ticker, frame)
    IN  IF frame = <<>> THEN [db |-> d, raised |-> FALSE]
        ELSE IF table \notin d.tables THEN [db |-> d, raised |-> TRUE]
        ELSE [db |-> IF r.tables = d.view THEN d ELSE Execute(d, r.tables),
              raised |-> r.raised]

----------------------------------------------------------------------------
(* fetch_and_store_batch *)

\* the ASCII letters, small and capital, in the order of their codes
LowerCase == "abcdefghijklmnopqrstuvwxyz"
UpperCase == "ABCDEFGHIJKLMNOPQRSTUVWXYZ"

\* str.upper() of one character: a small letter becomes its capital, any
\* other character of a ticker symbol stays
UpperChar(c) ==
    IF \E k \in 1..Len(LowerCase) : SubSeq(LowerCase, k, k) = c
    THEN LET k == CHOOSE j \in 1..Len(LowerCase) : SubSeq(LowerCase, j, j) = c
         IN  SubSeq(UpperCase, k, k)
    ELSE c

\* str.upper() of a ticker symbol, character by character
RECURSIVE Upper(_)
Upper(s) ==
    IF Len(s) = 0 THEN s
    ELSE UpperChar(SubSeq(s, 1, 1)) \o Upper(SubSeq(s, 2, Len(s)))

\* [t.upper() for t in tickers]
UpperAll(list) == [j \in 1..Len(list) |-> Upper(list[j])]

\* DATE('now')
Today(clock) == clock \div DAY

\* price = t.fast_info.last_price, None when the attribute raises
FastPrice(t) == IF t.fast_info.raises THEN Null ELSE t.fast_info.last_price

\* if price is None or price == 0
NeedsHistory(t) == FastPrice(t) = Null \/ FastPrice(t) = Num(0)

\* the price after the history fallback: the last close of a non-empty
\* history, a number or NaN, and else the fast price as it was
ResolvePrice(t) ==
    IF NeedsHistory(t) /\ t.history.close # <<>>
    THEN float(t.history.close[Len(t.history.close)])
    ELSE FastPrice(t)

\* sharesOutstanding, 0.0 when info lacks the key
Shares(t) == Get(t.info.value, "sharesOutstanding", Num(0))

\* beta or 1.0: None and 0 are false, NaN is true
BetaOr(beta) == IF beta = Null \/ beta = Num(0) THEN Num(1) ELSE beta

\* rf + (beta or 1.0) * (rm - rf)
DiscountRate(beta) ==
    IF BetaOr(beta) = NaN THEN NaN ELSE Num(rf + BetaOr(beta)[1] * (rm - rf))

\* lines 118-130, how the price is come by: "error" when t.history raises,
\* "skip" for the continue on price None, "priced" otherwise, a NaN included
PriceOutcome(t) ==
    CASE NeedsHistory(t) /\ t.history.raises -> "error"
      [] ResolvePrice(t) = Null -> "skip"
      [] OTHER -> "priced"

\* lines 133-145: "error" when t.info raises or price * shares does, shares
\* being None, and "write" otherwise, shares NaN included
InfoOutcome(t) ==
    IF t.info.raises \/ Shares(t) = Null THEN "error" ELSE "write"

\* INSERT OR REPLACE INTO stocks
insert_stocks(tb, ticker, t) ==
    LET price == ResolvePrice(t)
        info == t.info.value
        beta == Get(info, "beta", Null)
    IN  InsertOrReplace(tb, "stocks",
            [ticker |-> ticker,
             name |-> Get(info, "shortName", Str(ticker)),
             currency |-> Get(info, "currency", Str("USD")),
             sector |-> Get(info, "sector", Null),
             shares_outstanding |-> Sql(Shares(t)),
             price |-> Sql(price),
             market_cap |-> Sql(Get(info, "marketCap", Mul(price, Shares(t)))),
             beta |-> Sql(beta),
             growth_rate |-> growth_rate,
             discount_rate |-> Sql(DiscountRate(beta)),
             tax_rate |-> tax_rate])

\* the prices row written with INSERT OR IGNORE
insert_prices_ignore(tb, ticker, clock, price) ==
    InsertOrIgnore(tb, "prices", [ticker |-> ticker, date |-> clock, close |-> Sql(price)])

\* INSERT OR REPLACE INTO prices
insert_prices(tb, ticker, clock, price) ==
    InsertOrReplace(tb, "prices", [ticker |-> ticker, date |-> clock, close |-> Sql(price)])

\* the price_history row written with INSERT OR REPLACE
insert_price_history_replace(tb, ticker, clock, price) ==
    InsertOrReplace(tb, "price_history",
                    [ticker |-> ticker, date |-> Today(clock), close |-> Sql(price)])

\* INSERT OR IGNORE INTO price_history
insert_price_history(tb, ticker, clock, price) ==
    InsertOrIgnore(tb, "price_history",
                   [ticker |-> ticker, date |-> Today(clock), close |-> Sql(price)])

\* the writes without the one into prices
StoreRows_NoPrices(t, ticker, d, date, clock) ==
    LET price == ResolvePrice(t)
        t1 == insert_stocks(d.view, ticker, t)
        t3 == insert_price_history(t1, ticker, clock, price)
    IN  [db |-> Execute(d, t3), raised |-> FALSE]

\* lines 147-166, the three writes of one ticker: date is the clock as line
\* 132 read it, and clock the clock when DATE('now') of line 163 is evaluated;
\* a statement on a table the file lacks raises OperationalError, and what
\* was executed before it stays in the transaction
StoreRows(t, ticker, d, date, clock) ==
    LET price == ResolvePrice(t)
        t1 == insert_stocks(d.view, ticker, t)
        t2 == insert_prices(t1, ticker, date, price)
        t3 == insert_price_history(t2, ticker, clock, price)
    IN  IF "stocks" \notin d.tables THEN [db |-> d, raised |-> TRUE]
        ELSE IF "prices" \notin d.tables
        THEN [db |-> Execute(d, t1), raised |-> TRUE]
        ELSE IF "price_history" \notin d.tables
        THEN [db |-> Execute(d, t2), raised |-> TRUE]
        ELSE [db |-> Execute(d, t3), raised |-> FALSE]

\* an exception that ends the for loop
AfterTicker_Abort(outcome, p, n) == IF outcome = "error" THEN n + 1 ELSE p + 1

\* except Exception as e: print(...): the loop goes on with the next ticker
AfterTicker(outcome, p, n) == p + 1

----------------------------------------------------------------------------
(* Bounds of the model *)

\* request rows the producer ever inserts
MaxRequests == 2
\* rows a statement table ever holds
MaxStatementRows == 2
\* readings of the clock that differ, in the daemon's specification
MaxTicks == 2
\* seconds between two such readings
TICK == REFRESH_INTERVAL \div 2
\* idle iterations counted in a run; at 8 the interval has reached SLEEP_IDLE
MaxIdleRun == 9
\* calendar days that pass in the Batch Fetcher's specification
MaxDays == 1
\* direct calls of fetch_and_store_fundamentals
MaxFundCalls == 2

----------------------------------------------------------------------------
(* What the provider can answer *)

Attr(raises, field, value) ==
    IF field = "last_price" THEN [raises |-> raises, last_price |-> value]
    ELSE IF field = "close" THEN [raises |-> raises, close |-> value]
    ELSE IF field = "value" THEN [raises |-> raises, value |-> value]
    ELSE [raises |-> raises, frame |-> value]

NoFrame == Attr(FALSE, "frame", <<>>)
Raises(field) == Attr(TRUE, field, <<>>)

Provider(fast, hist, info, bs, inc, cf) ==
    [fast_info |-> fast, history |-> hist, info |-> info,
     balance_sheet |-> bs, financials |-> inc, cashflow |-> cf]

\* a ticker the provider knows nothing of
NoData ==
    Provider(Attr(FALSE, "last_price", Null), Attr(FALSE, "close", <<>>),
             Attr(FALSE, "value", EmptyDict), NoFrame, NoFrame, NoFrame)

\* a ticker with a fast price and nothing else
Priced(p) == [NoData EXCEPT !.fast_info.last_price = Num(p)]

\* the statement frames fit the bound on statement rows
Fits(t, d) ==
    /\ d.view.sqlite_sequence.balance_sheet + Len(t.balance_sheet.frame) <= MaxStatementRows
    /\ d.view.sqlite_sequence.income_statement + Len(t.financials.frame) <= MaxStatementRows
    /\ d.view.sqlite_sequence.cashflow_statement + Len(t.cashflow.frame) <= MaxStatementRows

----------------------------------------------------------------------------
(* The actions of fetch_and_store_batch *)

NoFetch == [ticker |-> "", outcome |-> "none", t |-> NoData, date |-> 0, ret |-> ""]
NoIter == [batch_calls |-> <<>>, refresh_calls |-> 0]

\* lines 108-113: return on an empty list, else upper-case it and connect
BatchOpen ==
    /\ pc = "batch"
    /\ iter' = [iter EXCEPT !.batch_calls = Append(@, tickers)]
    /\ IF tickers = <<>>
       THEN pc' = batch_ret /\ batch_ret' = "" /\ UNCHANGED <<tickers, pos>>
       ELSE pc' = "ticker" /\ tickers' = UpperAll(tickers) /\ pos' = 1
                           /\ UNCHANGED batch_ret
    /\ UNCHANGED <<db, now, sleep_time, last_refresh_time, requests,
                   universe, off, refresh_ret, handed, idle, fetched, probe, setup, tickers_db>>

\* lines 115-132: the for loop takes its next ticker, whose provider object
\* is t; the provider has answered for the price; without a price the
\* iteration is over, and with one the clock is read into date
FetchPrice(Outcomes) ==
    /\ pc = "ticker"
    /\ pos <= Len(tickers)
    /\ \E t \in Outcomes :
          /\ Fits(t, db)
          /\ IF PriceOutcome(t) = "priced"
             THEN /\ fetched' = [ticker |-> tickers[pos], outcome |-> "priced",
                                 t |-> t, date |-> now, ret |-> "ticker"]
                  /\ pc' = "info"
                  /\ pos' = pos
             ELSE /\ fetched' = [ticker |-> tickers[pos], outcome |-> PriceOutcome(t),
                                 t |-> t, date |-> 0, ret |-> "ticker"]
                  /\ pc' = "ticker"
                  /\ pos' = AfterTicker(PriceOutcome(t), pos, Len(tickers))
    /\ UNCHANGED <<db, now, sleep_time, last_refresh_time, requests, tickers,
                   batch_ret, universe, off, refresh_ret, handed, iter, idle,
                   probe, setup, tickers_db>>

\* lines 133-168: t.info has answered; an exception, of t.info, of
\* price * shares or of an INSERT, ends the iteration, and else the rows of
\* the ticker are written, the clock being read anew
WriteTicker ==
    /\ pc = "info"
    /\ LET r == StoreRows(fetched.t, fetched.ticker, db, fetched.date, now)
       IN  IF InfoOutcome(fetched.t) = "error" \/ r.raised
           THEN /\ db' = IF InfoOutcome(fetched.t) = "error" THEN db ELSE r.db
                /\ fetched' = [fetched EXCEPT !.outcome = "error"]
                /\ pc' = "ticker"
                /\ pos' = AfterTicker("error", pos, Len(tickers))
           ELSE /\ db' = r.db
                /\ fetched' = [fetched EXCEPT !.outcome = "write"]
                /\ pc' = "balance_sheet"
                /\ pos' = pos
    /\ UNCHANGED <<now, sleep_time, last_refresh_time, requests, tickers,
                   batch_ret, universe, off, refresh_ret, handed, iter, idle,
                   probe, setup, tickers_db>>

\* lines 48-65 of fetch_and_store_fundamentals, called at line 169 or
\* directly: t.balance_sheet has answered; an exception, of the attribute or
\* of an INSERT, ends the call with nothing committed (lines 103-104), and
\* the call returns, in a batch to the end of the iteration (line 171)
FetchBalanceSheet ==
    /\ pc = "balance_sheet"
    /\ LET r == StoreFrame(db, "balance_sheet", fetched.ticker,
                           fetched.t.balance_sheet.frame)
       IN  IF fetched.t.balance_sheet.raises
           THEN db' = db /\ pc' = fetched.ret /\ pos' = pos + 1
           ELSE /\ db' = r.db
                /\ pc' = IF r.raised THEN fetched.ret ELSE "financials"
                /\ pos' = IF r.raised THEN pos + 1 ELSE pos
    /\ UNCHANGED <<now, sleep_time, last_refresh_time, requests, tickers,
                   batch_ret, universe, off, refresh_ret, handed, iter, idle,
                   fetched, probe, setup, tickers_db>>

\* lines 67-82: t.financials has answered
FetchFinancials ==
    /\ pc = "financials"
    /\ LET r == StoreFrame(db, "income_statement", fetched.ticker,
                           fetched.t.financials.frame)
       IN  IF fetched.t.financials.raises
           THEN db' = db /\ pc' = fetched.ret /\ pos' = pos + 1
           ELSE /\ db' = r.db
                /\ pc' = IF r.raised THEN fetched.ret ELSE "cashflow"
                /\ pos' = IF r.raised THEN pos + 1 ELSE pos
    /\ UNCHANGED <<now, sleep_time, last_refresh_time, requests, tickers,
                   batch_ret, universe, off, refresh_ret, handed, iter, idle,
                   fetched, probe, setup, tickers_db>>

\* lines 84-101: t.cashflow has answered; the commit of line 101 ends the
\* call when nothing has raised
FetchCashflow ==
    /\ pc = "cashflow"
    /\ LET r == StoreFrame(db, "cashflow_statement", fetched.ticker,
                           fetched.t.cashflow.frame)
       IN  IF fetched.t.cashflow.raises
           THEN db' = db
           ELSE db' = IF r.raised THEN r.db ELSE Commit(r.db)
    /\ pc' = fetched.ret
    /\ pos' = pos + 1
    /\ UNCHANGED <<now, sleep_time, last_refresh_time, requests, tickers,
                   batch_ret, universe, off, refresh_ret, handed, iter, idle,
                   fetched, probe, setup, tickers_db>>

\* the steps of one iteration of the for loop, the provider answering from
\* Outcomes
FetchTicker(Outcomes) ==
    \/ FetchPrice(Outcomes)
    \/ WriteTicker
    \/ FetchBalanceSheet
    \/ FetchFinancials
    \/ FetchCashflow

\* lines 176-178: commit, checkpoint, close, return; the call's locals are gone
BatchClose ==
    /\ pc = "ticker"
    /\ pos > Len(tickers)
    /\ db' = Commit(db)
    /\ pc' = batch_ret
    /\ tickers' = <<>>
    /\ pos' = 0
    /\ batch_ret' = ""
    /\ fetched' = NoFetch
    /\ UNCHANGED <<now, sleep_time, last_refresh_time, requests, universe, off,
                   refresh_ret, handed, iter, idle, probe, setup, tickers_db>>

----------------------------------------------------------------------------
(* refresh_all_tickers *)

\* the first row only, as under LIMIT 1
Orders_LimitOne(S) == IF S = {} THEN {<<>>} ELSE {<<x>> : x \in S}

\* the orders a SELECT with no ORDER BY may give the rows of a set in
Orders(S) ==
    {f \in [1..Cardinality(S) -> S] :
        \A a, b \in 1..Cardinality(S) : a # b => f[a] # f[b]}

\* a slice one ticker too long
Subset_Overlap(list, i) ==
    SubSeq(list, i + 1, Min(i + BATCH_SIZE + 1, Len(list)))

\* tickers[i:i + BATCH_SIZE], i counted from 0
Subset(list, i) ==
    SubSeq(list, i + 1, Min(i + BATCH_SIZE, Len(list)))

\* SELECT DISTINCT ticker FROM prices
Distinct(t) == {r.ticker : r \in t.prices}

\* lines 182-186: the SELECT gives its rows as one of the lists; on a file
\* without the table it raises OperationalError, which nothing catches
RefreshSelectFrom(lists) ==
    /\ pc = "refresh"
    /\ IF "prices" \in db.tables
       THEN /\ universe' \in lists
            /\ off' = 0
            /\ pc' = "refresh_loop"
            /\ iter' = [iter EXCEPT !.refresh_calls = @ + 1]
       ELSE /\ pc' = "dead"
            /\ UNCHANGED <<universe, off, iter>>
    /\ UNCHANGED <<db, now, sleep_time, last_refresh_time, requests, tickers, pos,
                   batch_ret, refresh_ret, handed, idle, fetched, probe, setup,
                   tickers_db>>

\* lines 182-186, the rows coming in any order
RefreshSelect == RefreshSelectFrom(Orders(Distinct(db.disk)))

\* lines 193-195: the next batch of the universe goes to the Batch Fetcher
RefreshBatch ==
    /\ pc = "refresh_loop"
    /\ off < Len(universe)
    /\ tickers' = Subset(universe, off)
    /\ off' = off + BATCH_SIZE
    /\ batch_ret' = "refresh_loop"
    /\ pc' = "batch"
    /\ UNCHANGED <<db, now, sleep_time, last_refresh_time, requests, pos,
                   universe, refresh_ret, handed, iter, idle, fetched, probe, setup, tickers_db>>

\* refresh_all_tickers returns (line 190, or the end of its for loop) and
\* run_daemon stores last_refresh_time = time.time() (line 203 or 225)
RefreshDone ==
    /\ pc = "refresh_loop"
    /\ off >= Len(universe)
    /\ last_refresh_time' = now
    /\ pc' = IF refresh_ret = "init" THEN "loop" ELSE "sleep"
    /\ universe' = <<>>
    /\ off' = 0
    /\ refresh_ret' = ""
    /\ UNCHANGED <<db, now, sleep_time, requests, tickers, pos, batch_ret,
                   handed, iter, idle, fetched, probe, setup, tickers_db>>

----------------------------------------------------------------------------
(* run_daemon *)

\* the backoff with its cap left out
Backoff_NoCap(s) == (s * 3) \div 2

\* min(sleep_time * 1.5, SLEEP_IDLE)
Backoff(s) == Min((s * 3) \div 2, SLEEP_IDLE)

\* the rows of a set in the order of their ids
RECURSIVE ById(_)
ById(S) ==
    IF S = {} THEN <<>>
    ELSE LET r == CHOOSE x \in S : \A y \in S : x.id <= y.id
         IN  <<r>> \o ById(S \ {r})

\* the oldest pending row only, as under LIMIT 1
Pending_LimitOne(t) ==
    LET rows == ById({r \in t.update_requests : r.processed = 0})
    IN  [j \in 1..Min(1, Len(rows)) |-> [id |-> rows[j].id, ticker |-> rows[j].ticker]]

\* SELECT id, ticker FROM update_requests WHERE processed = 0
Pending(t) ==
    LET rows == ById({r \in t.update_requests : r.processed = 0})
    IN  [j \in 1..Len(rows) |-> [id |-> rows[j].id, ticker |-> rows[j].ticker]]

RequestIds(reqs) == [j \in 1..Len(reqs) |-> reqs[j].id]
RequestTickers(reqs) == [j \in 1..Len(reqs) |-> reqs[j].ticker]
Range(f) == {f[j] : j \in DOMAIN f}

\* line 202: the full refresh before the loop
StartRefresh ==
    /\ pc = "init"
    /\ refresh_ret' = "init"
    /\ pc' = "refresh"
    /\ UNCHANGED <<db, now, sleep_time, last_refresh_time, requests, tickers, pos,
                   batch_ret, universe, off, handed, iter, idle, fetched, probe, setup, tickers_db>>

\* lines 206-209: the loop's query; on a file without the table it raises
\* OperationalError, which nothing catches
LoopSelect ==
    /\ pc = "loop"
    /\ IF "update_requests" \in db.tables
       THEN /\ requests' = Pending(db.disk)
            /\ iter' = NoIter
            /\ pc' = "branch"
       ELSE /\ pc' = "dead"
            /\ UNCHANGED <<requests, iter>>
    /\ UNCHANGED <<db, now, sleep_time, last_refresh_time, tickers, pos, batch_ret,
                   universe, off, refresh_ret, handed, idle, fetched, probe, setup,
                   tickers_db>>

\* the selected rows marked processed and left in the table
Dequeue_MarkProcessed ==
    /\ pc = "branch"
    /\ requests # <<>>
    /\ sleep_time' = SLEEP_ACTIVE
    /\ idle' = [from |-> "request", base |-> SLEEP_ACTIVE, n |-> 0]
    /\ db' = Execute(db, [db.view EXCEPT !.update_requests =
                            {IF r.id \in Range(RequestIds(requests))
                             THEN [r EXCEPT !.processed = 1] ELSE r : r \in @}])
    /\ pc' = "dequeued"
    /\ UNCHANGED <<now, last_refresh_time, requests, tickers, pos, batch_ret,
                   universe, off, refresh_ret, handed, iter, fetched, probe, setup, tickers_db>>

\* every pending row deleted, selected or not
Dequeue_DeleteAll ==
    /\ pc = "branch"
    /\ requests # <<>>
    /\ sleep_time' = SLEEP_ACTIVE
    /\ idle' = [from |-> "request", base |-> SLEEP_ACTIVE, n |-> 0]
    /\ db' = Execute(db, [db.view EXCEPT !.update_requests =
                            {r \in @ : r.processed # 0}])
    /\ pc' = "dequeued"
    /\ UNCHANGED <<now, last_refresh_time, requests, tickers, pos, batch_ret,
                   universe, off, refresh_ret, handed, iter, fetched, probe, setup, tickers_db>>

\* lines 211-216: requests were found; the DELETEs are executed
Dequeue ==
    /\ pc = "branch"
    /\ requests # <<>>
    /\ sleep_time' = SLEEP_ACTIVE
    /\ idle' = [from |-> "request", base |-> SLEEP_ACTIVE, n |-> 0]
    /\ db' = Execute(db, [db.view EXCEPT !.update_requests =
                            {r \in @ : r.id \notin Range(RequestIds(requests))}])
    /\ pc' = "dequeued"
    /\ UNCHANGED <<now, last_refresh_time, requests, tickers, pos, batch_ret,
                   universe, off, refresh_ret, handed, iter, fetched, probe, setup, tickers_db>>

\* the call of the Batch Fetcher made before the DELETEs are committed
DequeueCommit_CallFirst ==
    /\ pc = "dequeued"
    /\ tickers' = RequestTickers(requests)
    /\ handed' = [id \in DOMAIN handed |->
                    IF id \in Range(RequestIds(requests)) THEN handed[id] + 1
                    ELSE handed[id]]
    /\ batch_ret' = "sleep"
    /\ pc' = "batch"
    /\ UNCHANGED <<db, now, sleep_time, last_refresh_time, requests, pos, universe,
                   off, refresh_ret, iter, idle, fetched, probe, setup, tickers_db>>

\* lines 217-221: commit, close, and the call of the Batch Fetcher
DequeueCommit ==
    /\ pc = "dequeued"
    /\ db' = Commit(db)
    /\ tickers' = RequestTickers(requests)
    /\ handed' = [id \in DOMAIN handed |->
                    IF id \in Range(RequestIds(requests)) THEN handed[id] + 1
                    ELSE handed[id]]
    /\ batch_ret' = "sleep"
    /\ pc' = "batch"
    /\ UNCHANGED <<now, sleep_time, last_refresh_time, requests, pos, universe,
                   off, refresh_ret, iter, idle, fetched, probe, setup, tickers_db>>

\* the refresh interval exceeded, not reached
RefreshDue_Strict == now - last_refresh_time > REFRESH_INTERVAL

\* the elif of line 223
RefreshDue == now - last_refresh_time >= REFRESH_INTERVAL

\* the refresh tested before the requests
PeriodicRefresh_First ==
    /\ pc = "branch"
    /\ RefreshDue
    /\ refresh_ret' = "periodic"
    /\ idle' = [from |-> "refresh", base |-> sleep_time, n |-> 0]
    /\ pc' = "refresh"
    /\ UNCHANGED <<db, now, sleep_time, last_refresh_time, requests, tickers, pos,
                   batch_ret, universe, off, handed, iter, fetched, probe, setup, tickers_db>>

\* lines 223-224: no request, and the refresh interval has passed
PeriodicRefresh ==
    /\ pc = "branch"
    /\ requests = <<>>
    /\ RefreshDue
    /\ refresh_ret' = "periodic"
    /\ idle' = [from |-> "refresh", base |-> sleep_time, n |-> 0]
    /\ pc' = "refresh"
    /\ UNCHANGED <<db, now, sleep_time, last_refresh_time, requests, tickers, pos,
                   batch_ret, universe, off, handed, iter, fetched, probe, setup, tickers_db>>

\* an idle iteration that goes back to the shortest interval
Idle_Reset ==
    /\ pc = "branch"
    /\ requests = <<>>
    /\ ~RefreshDue
    /\ sleep_time' = SLEEP_ACTIVE
    /\ idle' = [idle EXCEPT !.n = Min(@ + 1, MaxIdleRun)]
    /\ pc' = "sleep"
    /\ UNCHANGED <<db, now, last_refresh_time, requests, tickers, pos, batch_ret,
                   universe, off, refresh_ret, handed, iter, fetched, probe, setup, tickers_db>>

\* lines 228-230: nothing to do
Idle ==
    /\ pc = "branch"
    /\ requests = <<>>
    /\ ~RefreshDue
    /\ sleep_time' = Backoff(sleep_time)
    /\ idle' = [idle EXCEPT !.n = Min(@ + 1, MaxIdleRun)]
    /\ pc' = "sleep"
    /\ UNCHANGED <<db, now, last_refresh_time, requests, tickers, pos, batch_ret,
                   universe, off, refresh_ret, handed, iter, fetched, probe, setup, tickers_db>>

\* line 232: time.sleep(sleep_time), and back to the while, whose query
\* assigns requests anew
Sleep ==
    /\ pc = "sleep"
    /\ pc' = "loop"
    /\ requests' = <<>>
    /\ iter' = NoIter
    /\ UNCHANGED <<db, now, sleep_time, last_refresh_time, tickers, pos,
                   batch_ret, universe, off, refresh_ret, handed, idle,
                   fetched, probe, setup, tickers_db>>

----------------------------------------------------------------------------
(* The environment *)

RequestSymbols == {"AAA", "bbb"}

\* processed of a new row: the column's default 0, or 1 from a writer that
\* sets it
ProcessedValues == {0, 1}

\* a writer commits INSERT INTO update_requests; it needs the table, and
\* the write lock, which an open transaction of the daemon holds
InsertRequest ==
    /\ "update_requests" \in db.tables
    /\ ~db.in_txn
    /\ db.disk.sqlite_sequence.update_requests < MaxRequests
    /\ \E sym \in RequestSymbols, flag \in ProcessedValues :
          LET n == WithNextId(db.disk, "update_requests",
                              [ticker |-> sym, requested_at |-> now, processed |-> flag])
              t == InsertOrReplace(n.tables, "update_requests", n.row)
          IN  db' = [db EXCEPT !.disk = t, !.view = t]
    /\ UNCHANGED <<now, pc, sleep_time, last_refresh_time, requests, tickers, pos,
                   batch_ret, universe, off, refresh_ret, handed, iter, idle,
                   fetched, probe, setup, tickers_db>>

\* the clock moves on
TimePasses(step, limit) ==
    /\ now + step <= limit
    /\ now' = now + step
    /\ UNCHANGED <<db, pc, sleep_time, last_refresh_time, requests, tickers, pos,
                   batch_ret, universe, off, refresh_ret, handed, iter, idle,
                   fetched, probe, setup, tickers_db>>

NoIdle == [from |-> "start", base |-> SLEEP_IDLE, n |-> 0]

NoSetup == [overwrite |-> FALSE, ret |-> "", next |-> 0]

\* the process is killed, or has died, and the program is started again: the
\* open transaction is lost, and so are the locals; the files stay as they
\* are, tickers.db made or not when init_nasdaq_db was at work (line 224)
CrashRestart ==
    /\ pc # "main"
    /\ db' = Rollback(db)
    /\ pc' = "main"
    /\ sleep_time' = SLEEP_IDLE
    /\ last_refresh_time' = 0
    /\ requests' = <<>>
    /\ tickers' = <<>>
    /\ pos' = 0
    /\ batch_ret' = ""
    /\ universe' = <<>>
    /\ off' = 0
    /\ refresh_ret' = ""
    /\ iter' = NoIter
    /\ idle' = NoIdle
    /\ setup' = NoSetup
    /\ tickers_db' \in IF pc = "nasdaq_download" THEN BOOLEAN ELSE {tickers_db}
    /\ UNCHANGED <<now, handed, fetched, probe>>

----------------------------------------------------------------------------
(* init_db, and the program's entry *)

\* daemon.py line 235: the program calls init_db(overwrite=False)
Main ==
    /\ pc = "main"
    /\ setup' = [overwrite |-> FALSE, ret |-> "nasdaq", next |-> 0]
    /\ pc' = "init_db"
    /\ UNCHANGED <<db, now, sleep_time, last_refresh_time, requests, tickers, pos,
                   batch_ret, universe, off, refresh_ret, handed, iter, idle,
                   fetched, probe, tickers_db>>

\* init_db(overwrite) called by hand, as the module's documentation has it
CallInitDb ==
    /\ pc = "main"
    /\ \E overwrite \in BOOLEAN :
          setup' = [overwrite |-> overwrite, ret |-> "main", next |-> 0]
    /\ pc' = "init_db"
    /\ UNCHANGED <<db, now, sleep_time, last_refresh_time, requests, tickers, pos,
                   batch_ret, universe, off, refresh_ret, handed, iter, idle,
                   fetched, probe, tickers_db>>

\* init_db.py lines 70-81: with overwrite an existing file is removed; without
\* it an existing file, whatever is in it, ends the call
InitDbEnter ==
    /\ pc = "init_db"
    /\ IF db.exists /\ setup.overwrite
       THEN db' = NoStore /\ pc' = "init_db_connect" /\ setup' = setup
       ELSE IF db.exists
       THEN db' = db /\ pc' = setup.ret /\ setup' = NoSetup
       ELSE db' = db /\ pc' = "init_db_connect" /\ setup' = setup
    /\ UNCHANGED <<now, sleep_time, last_refresh_time, requests, tickers, pos,
                   batch_ret, universe, off, refresh_ret, handed, iter, idle,
                   fetched, probe, tickers_db>>

\* init_db.py lines 83-86: sqlite3.connect makes the file, with no table yet
InitDbConnect ==
    /\ pc = "init_db_connect"
    /\ db' = [db EXCEPT !.exists = TRUE]
    /\ setup' = [setup EXCEPT !.next = 1]
    /\ pc' = "init_db_create"
    /\ UNCHANGED <<now, sleep_time, last_refresh_time, requests, tickers, pos,
                   batch_ret, universe, off, refresh_ret, handed, iter, idle,
                   fetched, probe, tickers_db>>

\* init_db.py lines 88-182: one CREATE TABLE IF NOT EXISTS, committed on its own
InitDbCreate ==
    /\ pc = "init_db_create"
    /\ setup.next <= Len(Schema)
    /\ db' = [db EXCEPT !.tables = @ \cup {Schema[setup.next]}]
    /\ setup' = [setup EXCEPT !.next = @ + 1]
    /\ UNCHANGED <<now, pc, sleep_time, last_refresh_time, requests, tickers, pos,
                   batch_ret, universe, off, refresh_ret, handed, iter, idle,
                   fetched, probe, tickers_db>>

\* init_db.py lines 184-187: the last table is made, and the call returns
InitDbReturn ==
    /\ pc = "init_db_create"
    /\ setup.next > Len(Schema)
    /\ pc' = setup.ret
    /\ setup' = NoSetup
    /\ UNCHANGED <<db, now, sleep_time, last_refresh_time, requests, tickers, pos,
                   batch_ret, universe, off, refresh_ret, handed, iter, idle,
                   fetched, probe, tickers_db>>

\* daemon.py line 236: the program calls init_nasdaq_db(overwrite=False), and
\* run_daemon is next (line 237)
MainInitNasdaqDb ==
    /\ pc = "nasdaq"
    /\ setup' = [overwrite |-> FALSE, ret |-> "init", next |-> 0]
    /\ pc' = "init_nasdaq_db"
    /\ UNCHANGED <<db, now, sleep_time, last_refresh_time, requests, tickers, pos,
                   batch_ret, universe, off, refresh_ret, handed, iter, idle,
                   fetched, probe, tickers_db>>

\* init_nasdaq_db(overwrite) called by hand, path left at its default
CallInitNasdaqDb ==
    /\ pc = "main"
    /\ \E overwrite \in BOOLEAN :
          setup' = [overwrite |-> overwrite, ret |-> "main", next |-> 0]
    /\ pc' = "init_nasdaq_db"
    /\ UNCHANGED <<db, now, sleep_time, last_refresh_time, requests, tickers, pos,
                   batch_ret, universe, off, refresh_ret, handed, iter, idle,
                   fetched, probe, tickers_db>>

\* init_db.py lines 198-203: with overwrite an existing tickers.db is removed;
\* without it an existing tickers.db, whatever is in it, ends the call
InitNasdaqDb ==
    /\ pc = "init_nasdaq_db"
    /\ IF tickers_db /\ setup.overwrite
       THEN tickers_db' = FALSE /\ pc' = "nasdaq_download" /\ setup' = setup
       ELSE IF tickers_db
       THEN tickers_db' = tickers_db /\ pc' = setup.ret /\ setup' = NoSetup
       ELSE tickers_db' = tickers_db /\ pc' = "nasdaq_download" /\ setup' = setup
    /\ UNCHANGED <<db, now, sleep_time, last_refresh_time, requests, tickers, pos,
                   batch_ret, universe, off, refresh_ret, handed, iter, idle,
                   fetched, probe>>

\* how the rest of init_nasdaq_db ends: it returns (line 242); or the download
\* or the cleaning raises (lines 207-222), before tickers.db is made; or the
\* CREATE TABLE or to_sql raises (lines 226-235), after sqlite3.connect has
\* made tickers.db (line 224)
DownloadOutcomes == {"returns", "raises_before_connect", "raises_after_connect"}

\* init_db.py lines 205-242: the symbol lists have come and tickers.db is
\* made and filled, or an exception, which nothing catches, ends the process,
\* with tickers.db in place when the connection was already made
NasdaqDownload ==
    /\ pc = "nasdaq_download"
    /\ \E outcome \in DownloadOutcomes :
          /\ tickers_db' = IF outcome = "raises_before_connect"
                           THEN tickers_db ELSE TRUE
          /\ pc' = IF outcome = "returns" THEN setup.ret ELSE "dead"
          /\ setup' = IF outcome = "returns" THEN NoSetup ELSE setup
    /\ UNCHANGED <<db, now, sleep_time, last_refresh_time, requests, tickers, pos,
                   batch_ret, universe, off, refresh_ret, handed, iter, idle,
                   fetched, probe>>

----------------------------------------------------------------------------
(* The daemon: run_daemon with a producer, a clock and crashes *)

\* what the provider answers in the daemon's specification: no price; a
\* price and the info; a price with t.info raising; a price with None for the
\* shares
LoopOutcomes ==
    {NoData, Priced(1),
     [Priced(1) EXCEPT !.info = Raises("value")],
     [Priced(1) EXCEPT !.info = Attr(FALSE, "value", "sharesOutstanding" :> Null)]}

Init ==
    /\ db = NewStore
    /\ now = 0
    /\ pc = "init"
    /\ sleep_time = SLEEP_IDLE
    /\ last_refresh_time = 0
    /\ requests = <<>>
    /\ tickers = <<>>
    /\ pos = 0
    /\ batch_ret = ""
    /\ universe = <<>>
    /\ off = 0
    /\ refresh_ret = ""
    /\ handed = [id \in 1..MaxRequests |-> 0]
    /\ iter = NoIter
    /\ idle = NoIdle
    /\ fetched = NoFetch
    /\ probe = NoData
    /\ setup = NoSetup
    /\ tickers_db = TRUE

Next ==
    \/ StartRefresh
    \/ RefreshSelect
    \/ RefreshBatch
    \/ RefreshDone
    \/ BatchOpen
    \/ FetchTicker(LoopOutcomes)
    \/ BatchClose
    \/ LoopSelect
    \/ Dequeue
    \/ DequeueCommit
    \/ PeriodicRefresh
    \/ Idle
    \/ Sleep
    \/ InsertRequest
    \/ TimePasses(TICK, MaxTicks * TICK)
    \/ CrashRestart
    \/ Main
    \/ InitDbEnter
    \/ MainInitNasdaqDb
    \/ InitNasdaqDb

Spec == Init /\ [][Next]_vars

----------------------------------------------------------------------------
(* The Batch Fetcher called directly, list after list, over the days *)

\* frames of one period, with labels as the provider spells them
BalanceFrame ==
    << <<1, (" Total Assets " :> Num(9)) @@ ("Long Term Debt" :> Num(4))>> >>
IncomeFrame ==
    << <<1, ("EBIT" :> Num(3)) @@ ("Operating Income" :> Num(5))>> >>
CashflowFrame ==
    << <<1, ("Operating Cash Flow" :> Num(6)) @@ ("Capital Expenditure" :> Num(-2))>> >>

\* the three statements of a ticker; any of the attributes may raise
Statements(bsRaises, incRaises, cfRaises) ==
    [Priced(1) EXCEPT
        !.balance_sheet = IF bsRaises THEN Raises("frame")
                          ELSE Attr(FALSE, "frame", BalanceFrame),
        !.financials = IF incRaises THEN Raises("frame")
                       ELSE Attr(FALSE, "frame", IncomeFrame),
        !.cashflow = IF cfRaises THEN Raises("frame")
                     ELSE Attr(FALSE, "frame", CashflowFrame)]

FastAnswers ==
    {Raises("last_price")} \cup
    {Attr(FALSE, "last_price", p) : p \in {Null, NaN, Num(0), Num(1)}}

HistoryAnswers ==
    {Raises("close"), Attr(FALSE, "close", <<>>),
     Attr(FALSE, "close", <<Num(1), Num(2)>>)}

InfoAnswers ==
    {Raises("value"),
     Attr(FALSE, "value", "sharesOutstanding" :> Null),
     Attr(FALSE, "value", "sharesOutstanding" :> NaN),
     Attr(FALSE, "value", "beta" :> Num(0)),
     Attr(FALSE, "value", "beta" :> NaN),
     Attr(FALSE, "value",
          ("beta" :> Num(2)) @@ ("sharesOutstanding" :> Num(5))
          @@ ("shortName" :> Str("Acme")) @@ ("currency" :> Str("EUR"))
          @@ ("sector" :> Str("Tech")))}

\* t.info raises (line 133), or has None for the shares, so that
\* price * shares raises (line 136)
InfoFails(i) == i.raises \/ Get(i.value, "sharesOutstanding", Num(0)) = Null

\* a usable fast price, or a NaN, keeps the history from being asked
HistoryAsked(f) == f.raises \/ f.last_price \in {Null, Num(0)}

\* what the provider answers in this specification
BatchOutcomes ==
    {[NoData EXCEPT !.fast_info = f, !.history = h] :
        f \in {g \in FastAnswers : HistoryAsked(g)}, h \in HistoryAnswers}
    \cup {[NoData EXCEPT !.fast_info = Attr(FALSE, "last_price", NaN),
                         !.history = Attr(FALSE, "close", <<Num(1), Num(2)>>)],
          [NoData EXCEPT !.history = Attr(FALSE, "close", <<Num(1), NaN>>)]}
    \cup {Priced(1)}
    \cup {[Priced(1) EXCEPT !.info = i] : i \in {j \in InfoAnswers : InfoFails(j)}}
    \cup {Statements(FALSE, FALSE, FALSE), Statements(TRUE, FALSE, FALSE)}

\* the lists the caller hands over: empty, one ticker, two tickers in both
\* orders, one ticker twice under two spellings, a ticker between two others
BatchLists ==
    {<<>>, <<"AAA">>, <<"AAA", "bbb">>, <<"bbb", "AAA">>, <<"aaa", "AAA">>,
     <<"AAA", "bbb", "AAA">>}

\* a caller hands a list to fetch_and_store_batch
CallBatch(lists) ==
    /\ pc = "caller"
    /\ tickers' \in lists
    /\ batch_ret' = "caller"
    /\ pc' = "batch"
    /\ iter' = NoIter
    /\ UNCHANGED <<db, now, sleep_time, last_refresh_time, requests, pos,
                   universe, off, refresh_ret, handed, idle, fetched, probe, setup, tickers_db>>

InitBatch ==
    /\ db = NewStore
    /\ now = 0
    /\ pc = "caller"
    /\ sleep_time = SLEEP_IDLE
    /\ last_refresh_time = 0
    /\ requests = <<>>
    /\ tickers = <<>>
    /\ pos = 0
    /\ batch_ret = ""
    /\ universe = <<>>
    /\ off = 0
    /\ refresh_ret = ""
    /\ handed = [id \in 1..MaxRequests |-> 0]
    /\ iter = NoIter
    /\ idle = NoIdle
    /\ fetched = NoFetch
    /\ probe = NoData
    /\ setup = NoSetup
    /\ tickers_db = TRUE

NextBatch ==
    \/ CallBatch(BatchLists)
    \/ BatchOpen
    \/ FetchTicker(BatchOutcomes)
    \/ BatchClose

SpecBatch == InitBatch /\ [][NextBatch]_vars

----------------------------------------------------------------------------
(* The Batch Fetcher called directly, over what t.info can be *)

InfoLists == {<<"AAA">>, <<"AAA", "bbb">>}

\* what the provider answers in this specification
InfoOutcomes == {Priced(1)} \cup {[Priced(1) EXCEPT !.info = i] : i \in InfoAnswers}

NextInfo ==
    \/ CallBatch(InfoLists)
    \/ BatchOpen
    \/ FetchTicker(InfoOutcomes)
    \/ BatchClose

SpecInfo == InitBatch /\ [][NextInfo]_vars

----------------------------------------------------------------------------
(* The Batch Fetcher called on one day after another *)

DayLists == {<<"AAA">>, <<"bbb", "AAA">>}

\* no data, a fast price, a history, and a ticker whose income statement
\* raises when its balance sheet is written
DayOutcomes ==
    {NoData, Priced(1),
     [NoData EXCEPT !.history = Attr(FALSE, "close", <<Num(1), Num(2)>>)],
     Statements(FALSE, TRUE, FALSE)}

NextDays ==
    \/ CallBatch(DayLists)
    \/ BatchOpen
    \/ FetchTicker(DayOutcomes)
    \/ BatchClose
    \/ TimePasses(DAY, MaxDays * DAY)

SpecDays == InitBatch /\ [][NextDays]_vars

----------------------------------------------------------------------------
(* fetch_and_store_fundamentals called directly, with one provider object *)

StatementTables == {"balance_sheet", "income_statement", "cashflow_statement"}

\* the labels each statement kind is read by
StatementFields(table) ==
    CASE table = "balance_sheet" ->
            {"Total Assets", "Total Liabilities Net Minority Interest",
             "Total Non Current Liabilities Net Minority Interest",
             "Total Debt", "Long Term Debt", "Cash And Cash Equivalents",
             "Cash Cash Equivalents And Short Term Investments"}
      [] table = "income_statement" ->
            {"EBIT", "EBITDA", "Operating Income", "Net Income",
             "Net Income Continuous Operations", "Total Revenue", "Operating Revenue"}
      [] OTHER ->
            {"Operating Cash Flow", "Cash Flow From Continuing Operating Activities",
             "Capital Expenditure", "Net PPE Purchase And Sale"}

\* a number of its own for each label; spending is negative
FieldValue(n) ==
    LET order == <<"Total Assets", "Total Liabilities Net Minority Interest",
                   "Total Non Current Liabilities Net Minority Interest",
                   "Total Debt", "Long Term Debt", "Cash And Cash Equivalents",
                   "Cash Cash Equivalents And Short Term Investments",
                   "EBIT", "EBITDA", "Operating Income", "Net Income",
                   "Net Income Continuous Operations", "Total Revenue",
                   "Operating Revenue", "Operating Cash Flow",
                   "Cash Flow From Continuing Operating Activities",
                   "Capital Expenditure", "Net PPE Purchase And Sale">>
        k == CHOOSE j \in 1..Len(order) : order[j] = n
    IN  IF n \in {"Capital Expenditure", "Net PPE Purchase And Sale"} THEN 0 - k ELSE k

\* the rows of a statement kind: any labels of the kind, not none, each with
\* its number or NaN
StatementRows(table) ==
    UNION {{[n \in S |-> IF n \in N THEN NaN ELSE Num(FieldValue(n))] :
                N \in SUBSET S} :
           S \in (SUBSET StatementFields(table)) \ {{}}}

\* the rows with None under one of their labels
NoneRows(table) ==
    UNION {{[n \in S |-> IF n = m THEN Null ELSE Num(FieldValue(n))] : m \in S} :
           S \in (SUBSET StatementFields(table)) \ {{}}}

\* the row with whitespace around its labels
PadRow(row) == [k \in {" " \o n \o " " : n \in DOMAIN row} |-> row[Strip(k)]]

\* the frames of one period of a statement kind
StatementFrames(table) ==
    {<< <<1, row>> >> : row \in StatementRows(table) \cup NoneRows(table)}
    \cup {<< <<1, PadRow(row)>> >> : row \in StatementRows(table)}

\* a balance sheet of two periods, the second with None for its total assets
TwoPeriods ==
    << <<1, "Total Assets" :> Num(9)>>, <<2, "Total Assets" :> Null>> >>

\* the provider objects a direct call is made with
FundInputs ==
    {[NoData EXCEPT !.balance_sheet = Attr(FALSE, "frame", f)] :
        f \in StatementFrames("balance_sheet") \cup {TwoPeriods}}
    \cup {[NoData EXCEPT !.financials = Attr(FALSE, "frame", f)] :
        f \in StatementFrames("income_statement")}
    \cup {[NoData EXCEPT !.cashflow = Attr(FALSE, "frame", f)] :
        f \in StatementFrames("cashflow_statement")}
    \cup {Statements(a, b, c) : a, b, c \in BOOLEAN}

\* fetch_and_store_fundamentals(t, "AAA", conn) is called, t being the probe
CallFundamentals ==
    /\ pc = "fund"
    /\ pos < MaxFundCalls
    /\ fetched' = [ticker |-> "AAA", outcome |-> "direct", t |-> probe,
                   date |-> 0, ret |-> "fund"]
    /\ pc' = "balance_sheet"
    /\ UNCHANGED <<db, now, sleep_time, last_refresh_time, requests, tickers, pos,
                   batch_ret, universe, off, refresh_ret, handed, iter, idle,
                   probe, setup, tickers_db>>

InitFund ==
    /\ db = NewStore
    /\ now = 0
    /\ pc = "fund"
    /\ sleep_time = SLEEP_IDLE
    /\ last_refresh_time = 0
    /\ requests = <<>>
    /\ tickers = <<>>
    /\ pos = 0
    /\ batch_ret = ""
    /\ universe = <<>>
    /\ off = 0
    /\ refresh_ret = ""
    /\ handed = [id \in 1..MaxRequests |-> 0]
    /\ iter = NoIter
    /\ idle = NoIdle
    /\ fetched = NoFetch
    /\ probe \in FundInputs
    /\ setup = NoSetup
    /\ tickers_db = TRUE

NextFund ==
    \/ CallFundamentals
    \/ FetchBalanceSheet
    \/ FetchFinancials
    \/ FetchCashflow

SpecFund == InitFund /\ [][NextFund]_vars

----------------------------------------------------------------------------
(* Properties of the daemon loop *)

\* where the process is inside an iteration of the for loop
IterationPlaces == {"info", "balance_sheet", "financials", "cashflow"}

RECURSIVE Pow(_, _)
Pow(b, e) == IF e = 0 THEN 1 ELSE b * Pow(b, e - 1)

\* min(s * 1.5^n, SLEEP_IDLE)
BackoffN(s, n) ==
    IF s * Pow(3, n) >= SLEEP_IDLE * Pow(2, n)
    THEN SLEEP_IDLE
    ELSE (s * Pow(3, n)) \div Pow(2, n)

\* the requests of the list handed to the Batch Fetcher by the running iteration
InFlight == IF batch_ret = "sleep" /\ pc \in {"batch", "ticker"} \cup IterationPlaces
            THEN Range(RequestIds(requests)) ELSE {}

\* C1: no request id is handed to the Batch Fetcher more than once, crashes
\* and failed fetches included, and when the Batch Fetcher is called with the
\* requests of an iteration their rows are already deleted on disk.
C1_AtMostOnce ==
    /\ \A id \in DOMAIN handed : handed[id] <= 1
    /\ \A id \in InFlight : \A r \in db.disk.update_requests : r.id # id

\* C1 witness: the daemon was killed after request 1 was deleted and handed
\* over and before anything was stored; it is starting again and the request
\* is gone.
C1_Witness ==
    /\ pc = "init"
    /\ handed[1] = 1
    /\ db.disk.prices = {}
    /\ \A r \in db.disk.update_requests : r.id # 1

\* C3 as stated: counting the idle iterations from any point, daemon start
\* included, after n >= 1 of them the interval is min(0.2 * 1.5^n, 5.0).
C3_Original ==
    idle.n >= 1 => sleep_time = BackoffN(SLEEP_ACTIVE, idle.n)

\* C3 amended: after n consecutive idle iterations the interval is
\* min(s * 1.5^n, 5.0) for the interval s the run began with, and s is
\* SLEEP_ACTIVE when the run follows an iteration that processed requests
\* (n = 0: that iteration leaves the interval at SLEEP_ACTIVE).
C3_Backoff ==
    /\ sleep_time = BackoffN(idle.base, idle.n)
    /\ idle.from = "request" => sleep_time = BackoffN(SLEEP_ACTIVE, idle.n)
    /\ idle.from = "start" => idle.base = SLEEP_IDLE

\* C3 witness: the eighth idle iteration after a request is the first to
\* reach the cap.
C3_Witness ==
    /\ idle.from = "request"
    /\ idle.n = 8
    /\ sleep_time = SLEEP_IDLE
    /\ pc = "sleep"

\* C4: an iteration whose query found requests has, when it goes to sleep,
\* deleted all of them, called the Batch Fetcher once, with their tickers in
\* the query's order, and not called the Refresh Scheduler.
C4_RequestPriority ==
    (pc = "sleep" /\ requests # <<>>) =>
        /\ \A id \in Range(RequestIds(requests)) :
              \A r \in db.disk.update_requests : r.id # id
        /\ iter.batch_calls = <<RequestTickers(requests)>>
        /\ iter.refresh_calls = 0

\* C4 witness: such an iteration, with two requests, at a time when the
\* periodic refresh was due.
C4_Witness ==
    /\ pc = "sleep"
    /\ Len(requests) = 2
    /\ RefreshDue
    /\ iter.batch_calls = <<RequestTickers(requests)>>

----------------------------------------------------------------------------
(* Properties of the stores *)

RowsOf(rows, sym) == {r \in rows : r.ticker = sym}

StoreTables == {"stocks", "prices", "price_history"} \cup StatementTables

\* rows that agree on the columns agree altogether
UniqueOn(rows, cols) ==
    \A r1, r2 \in rows : (\A c \in cols : r1[c] = r2[c]) => r1 = r2

\* the for loop is about to take its next ticker
AtTicker == pc = "ticker" /\ pos <= Len(tickers)

\* the process is at or inside an iteration of the for loop
InIteration == AtTicker \/ pc \in IterationPlaces

\* the provider gives the ticker a price that is a number, by either path
YieldsPrice(t) ==
    \/ ~t.fast_info.raises /\ t.fast_info.last_price \notin {Null, NaN, Num(0)}
    \/ /\ t.fast_info.raises \/ t.fast_info.last_price # NaN
       /\ ~t.history.raises /\ t.history.close # <<>>
       /\ t.history.close[Len(t.history.close)] # NaN

\* the provider gives the ticker a price that is a number, and its info
Healthy(t) == YieldsPrice(t) /\ ~InfoFails(t.info)

\* neither path gives the ticker a price
NoPrice(t) ==
    /\ t.fast_info.raises \/ t.fast_info.last_price = Null
    /\ ~t.history.raises
    /\ t.history.close = <<>>

\* a provider call of the ticker raises
ProviderError(t) ==
    \/ (t.fast_info.raises \/ t.fast_info.last_price \in {Null, Num(0)}) /\ t.history.raises
    \/ Healthy([t EXCEPT !.info = NoData.info]) /\ t.info.raises

\* the iteration of a healthy ticker, once begun, goes on to the ticker's info
HealthyGoesOn ==
    (AtTicker /\ (pc' \notin {pc, "main"} \/ pos' = pos + 1) /\ Healthy(fetched'.t))
        => pc' = "info"

\* the step writes the rows of the ticker in hand, or fails on its info
AtWrite == pc = "info" /\ pc' \notin {pc, "main"}

\* C2: no statement table holds two rows with the same (ticker, date);
\* the same period written twice leaves one row.
C2_OneRowPerPeriod ==
    \A tb \in StatementTables : UniqueOn(db.view[tb], {"ticker", "date"})

\* C5, one step of an iteration: whatever the ticker's fate the loop stays
\* with its list and goes on, to the rest of the iteration or to the next
\* ticker; a ticker with no price or a provider error changes nothing in any
\* table and never gets as far as the fundamentals; a healthy ticker has its
\* prices and stocks rows when its iteration ends; the rows of the other
\* tickers, as written so far, stay as they are.
C5_Iteration ==
    InIteration =>
        LET sym == tickers[pos]
            t == fetched'.t
        IN  /\ tickers' = tickers
            /\ fetched'.ticker = sym
            /\ pc' \in {"ticker"} \cup IterationPlaces
            /\ pos' = IF pc' = "ticker" THEN pos + 1 ELSE pos
            /\ (NoPrice(t) \/ ProviderError(t)) =>
                  (db' = db /\ pc' \in {"ticker", "info"})
            /\ (Healthy(t) /\ pc' = "ticker") =>
                  /\ pc # "ticker"
                  /\ \E r \in db'.view.prices : r.ticker = sym /\ r.close = ResolvePrice(t)
                  /\ \E r \in db'.view.stocks : r.ticker = sym /\ r.price = ResolvePrice(t)
            /\ \A tb \in StoreTables :
                  \A r \in db.view[tb] : r.ticker # sym => r \in db'.view[tb]

\* C5, the end of the call: all that was written is committed and the call
\* returns to its caller.
C5_Return ==
    (pc = "ticker" /\ pos > Len(tickers)) => (db'.disk = db.view /\ pc' = batch_ret)

\* C5: per-ticker failure isolation in fetch_and_store_batch: a failing ticker
\* at any position leaves the other tickers processed and stored, rolls nothing
\* back, produces no rows when it has no price, and no exception leaves the call.
C5_FailureIsolation == [][C5_Iteration /\ C5_Return]_vars

\* C5 witness: the list AAA, BBB, AAA is done; BBB, in the middle, failed and
\* has no row in any table; AAA has its rows.
C5_Witness ==
    /\ tickers = <<"AAA", "BBB", "AAA">>
    /\ pos = 4
    /\ \A tb \in StoreTables : RowsOf(db.view[tb], "BBB") = {}
    /\ RowsOf(db.view.prices, "AAA") # {}
    /\ RowsOf(db.view.stocks, "AAA") # {}
    /\ RowsOf(db.view.balance_sheet, "AAA") # {}

\* C6: a ticker whose fast price is unavailable or zero and whose history is
\* empty is skipped, and no prices or stocks row holds the price 0.
C6_SkipNoUsablePrice ==
    /\ (/\ fetched.outcome # "none"
        /\ FastPrice(fetched.t) \in {Null, Num(0)}
        /\ ~fetched.t.history.raises
        /\ fetched.t.history.close = <<>>) => fetched.outcome = "skip"
    /\ \A r \in db.view.prices : r.close # Num(0)
    /\ \A r \in db.view.stocks : r.price # Num(0)

\* the provider gave a frame for the statement kind, with no None in it
Given(attr) ==
    /\ ~attr.raises
    /\ attr.frame # <<>>
    /\ \A k \in 1..Len(attr.frame) :
          \A n \in DOMAIN attr.frame[k][2] : attr.frame[k][2][n] # Null

\* C7: after a call of fetch_and_store_fundamentals every statement kind the
\* provider gave a frame for has its row, whatever the other kinds did.
C7_KindIsolation ==
    (pc = "fund" /\ pos >= 1) =>
        /\ Given(probe.balance_sheet) => RowsOf(db.view.balance_sheet, "AAA") # {}
        /\ Given(probe.financials) => RowsOf(db.view.income_statement, "AAA") # {}
        /\ Given(probe.cashflow) => RowsOf(db.view.cashflow_statement, "AAA") # {}

\* C8, one step: price_history has one row per (ticker, date); a row, once
\* there, is never changed or removed; the iteration of a healthy ticker
\* comes to its writes, and they leave a row for the ticker and the day of
\* the write, with the ticker's price if there was no row yet.
C8_Step ==
    /\ UniqueOn(db'.view.price_history, {"ticker", "date"})
    /\ \A r \in db.view.price_history : r \in db'.view.price_history
    /\ HealthyGoesOn
    /\ (AtWrite /\ Healthy(fetched.t)) =>
          LET key == [ticker |-> tickers[pos], date |-> Today(now)]
              old == {r \in db.view.price_history :
                        r.ticker = key.ticker /\ r.date = key.date}
          IN  \E r \in db'.view.price_history :
                 /\ r.ticker = key.ticker
                 /\ r.date = key.date
                 /\ old = {} => r.close = ResolvePrice(fetched.t)

\* C8: price history is insert-if-absent: at most one row per (ticker,
\* calendar date), holding the first price written that day.
C8_FirstPriceOfDay == [][C8_Step]_vars

\* C8 witness: on the second day a ticker is fetched at 1 and then at 2; its
\* row of the day holds 1, and the row of the day before is still there.
C8_Witness ==
    /\ now = DAY
    /\ fetched.outcome = "write"
    /\ ResolvePrice(fetched.t) = Num(2)
    /\ [ticker |-> fetched.ticker, date |-> 1, close |-> Num(1)] \in db.view.price_history
    /\ \E r \in db.view.price_history : r.ticker = fetched.ticker /\ r.date = 0

\* the prices and stocks rows of the ticker hold the price, and the rows of
\* the other tickers are as they were
Overwritten(sym, price) ==
    /\ \E r \in db'.view.prices : r.ticker = sym /\ r.close = price
    /\ \E r \in db'.view.stocks : r.ticker = sym /\ r.price = price
    /\ \A r \in db.view.prices : r.ticker # sym => r \in db'.view.prices
    /\ \A r \in db.view.stocks : r.ticker # sym => r \in db'.view.stocks

\* prices and stocks are as they were
Untouched ==
    /\ db'.view.prices = db.view.prices
    /\ db'.view.stocks = db.view.stocks

\* C9, one step: prices and stocks have one row per ticker, and the same
\* tickers; the writes of an iteration either leave both tables alone or
\* leave the ticker's rows with the price it resolved (NULL for a NaN) and
\* the other rows alone, the latter whenever the ticker is healthy, and the
\* iteration of a healthy ticker comes to its writes; no other step touches
\* the tables.
C9_Step ==
    /\ UniqueOn(db'.view.prices, {"ticker"})
    /\ UniqueOn(db'.view.stocks, {"ticker"})
    /\ {r.ticker : r \in db'.view.prices} = {r.ticker : r \in db'.view.stocks}
    /\ HealthyGoesOn
    /\ IF AtWrite
       THEN /\ Untouched \/ Overwritten(tickers[pos], Sql(ResolvePrice(fetched.t)))
            /\ Healthy(fetched.t) => Overwritten(tickers[pos], ResolvePrice(fetched.t))
       ELSE Untouched

\* C9: prices and stocks are overwritten: one row per fetched ticker, with
\* the price of its latest successful fetch.
C9_LastWriteWins == [][C9_Step]_vars

\* C9 witness: a list naming AAA twice under two spellings is done; the
\* first fetch stored 1 (the day's history row says so), the second 2, and
\* the one prices row and the one stocks row of AAA hold 2.
C9_Witness ==
    /\ tickers = <<"AAA", "AAA">>
    /\ pos = 3
    /\ \E r \in db.view.price_history : r.ticker = "AAA" /\ r.close = Num(1)
    /\ \A r \in db.view.prices : r.ticker = "AAA" /\ r.close = Num(2)
    /\ \A r \in db.view.stocks : r.ticker = "AAA" /\ r.price = Num(2)
    /\ Cardinality(db.view.prices) = 1
    /\ Cardinality(db.view.stocks) = 1

\* the value the Field Resolver's contract gives: the first candidate of the
\* chain that is present and not null (neither None nor NaN), else the default
Resolved(row, chain, default) ==
    IF \E k \in 1..Len(chain) : Get(row, chain[k], Null) \notin {Null, NaN}
    THEN row[chain[CHOOSE k \in 1..Len(chain) :
                /\ Get(row, chain[k], Null) \notin {Null, NaN}
                /\ \A j \in 1..(k - 1) : Get(row, chain[j], Null) \in {Null, NaN}]]
    ELSE default

\* the candidate chain of each stored metric
Chains(table) ==
    CASE table = "balance_sheet" ->
            [total_assets |-> <<"Total Assets">>,
             total_liabilities |->
                <<"Total Liabilities Net Minority Interest",
                  "Total Non Current Liabilities Net Minority Interest">>,
             total_debt |-> <<"Total Debt", "Long Term Debt">>,
             total_cash |-> <<"Cash And Cash Equivalents",
                              "Cash Cash Equivalents And Short Term Investments">>]
      [] table = "income_statement" ->
            [ebit |-> <<"EBIT", "Operating Income">>,
             ebitda |-> <<"EBITDA", "Operating Income">>,
             net_income |-> <<"Net Income", "Net Income Continuous Operations">>,
             total_revenue |-> <<"Total Revenue", "Operating Revenue">>]
      [] OTHER ->
            [operating_cash_flow |->
                <<"Operating Cash Flow", "Cash Flow From Continuing Operating Activities">>,
             capital_expenditures |-> <<"Capital Expenditure", "Net PPE Purchase And Sale">>]

\* the frame the probe gives for a statement table
ProbeFrame(table) ==
    CASE table = "balance_sheet" -> probe.balance_sheet
      [] table = "income_statement" -> probe.financials
      [] OTHER -> probe.cashflow

\* C10: every metric stored from a record is the first candidate of its
\* chain that is present and non-null in the record, else the default 0.0
\* (capital_expenditures compared by magnitude, as it is stored).
C10_FieldFallback ==
    (pc = "fund" /\ pos = 1) =>
        \A tb \in StatementTables :
            \A r \in db.view[tb] :
                LET row == StripIndex(ProbeFrame(tb).frame[r.id][2])
                IN  \A col \in DOMAIN Chains(tb) :
                        absf(r[col]) = absf(Resolved(row, Chains(tb)[col], Num(0)))

----------------------------------------------------------------------------
(* refresh_all_tickers called once over a universe of many tickers *)

\* tickers the prices table ever holds in this specification
MaxUniverse == 101

Letters == <<"A", "B", "C", "D", "E", "F", "G", "H", "I", "J", "K">>

\* the i-th ticker symbol: AA, AB, ..., KK
Name(i) == Letters[((i - 1) \div Len(Letters)) + 1] \o Letters[((i - 1) % Len(Letters)) + 1]

\* the sizes of the universe: none, one, and around one and two full batches
UniverseSizes ==
    {0, 1, BATCH_SIZE - 1, BATCH_SIZE, BATCH_SIZE + 1, 2 * BATCH_SIZE, MaxUniverse}

\* the characters a ticker symbol is written with, in the order of their
\* ASCII codes
Ascii ==
    " !#$%&()*+,-./0123456789:;<=>?@ABCDEFGHIJKLMNOPQRSTUVWXYZ^_abcdefghijklmnopqrstuvwxyz"

\* the place of a character in that order
Code(c) == CHOOSE k \in 1..Len(Ascii) : SubSeq(Ascii, k, k) = c

\* a < b under SQLite's BINARY collation: byte by byte, a proper prefix first
RECURSIVE Before(_, _)
Before(a, b) ==
    IF Len(b) = 0 THEN FALSE
    ELSE IF Len(a) = 0 THEN TRUE
    ELSE LET x == Code(SubSeq(a, 1, 1))
             y == Code(SubSeq(b, 1, 1))
         IN  IF x # y THEN x < y
             ELSE Before(SubSeq(a, 2, Len(a)), SubSeq(b, 2, Len(b)))

\* the symbols of S in ascending order, as a scan of the index
\* sqlite_autoindex_prices_1 on prices.ticker gives them
RECURSIVE Ascending(_)
Ascending(S) ==
    IF S = {} THEN <<>>
    ELSE LET m == CHOOSE x \in S : \A y \in S \ {x} : Before(x, y)
         IN  <<m>> \o Ascending(S \ {m})

Reverse(list) == [j \in 1..Len(list) |-> list[Len(list) + 1 - j]]

\* the orders a scan of the index gives the rows in: forwards, and backwards
IndexOrders(S) == {Ascending(S), Reverse(Ascending(S))}

\* the tables after an earlier fetch of the first n symbols at price 1
Tracked(n) ==
    [EmptyTables EXCEPT
        !.prices = {[ticker |-> Name(i), date |-> 0, close |-> Num(1)] : i \in 1..n},
        !.price_history = {[ticker |-> Name(i), date |-> 0, close |-> Num(1)] : i \in 1..n},
        !.stocks = UNION {insert_stocks(EmptyTables, Name(i), Priced(1)).stocks : i \in 1..n}]

\* what the provider answers in this specification
RefreshOutcomes == {Priced(2)}

InitRefresh ==
    /\ \E n \in UniverseSizes :
          db = [NewStore EXCEPT !.disk = Tracked(n), !.view = Tracked(n)]
    /\ now = 0
    /\ pc = "refresh"
    /\ sleep_time = SLEEP_IDLE
    /\ last_refresh_time = 0
    /\ requests = <<>>
    /\ tickers = <<>>
    /\ pos = 0
    /\ batch_ret = ""
    /\ universe = <<>>
    /\ off = 0
    /\ refresh_ret = "periodic"
    /\ handed = [id \in 1..MaxRequests |-> 0]
    /\ iter = NoIter
    /\ idle = NoIdle
    /\ fetched = NoFetch
    /\ probe = NoData
    /\ setup = NoSetup
    /\ tickers_db = TRUE

NextRefresh ==
    \/ RefreshSelectFrom(IndexOrders(Distinct(db.disk)))
    \/ RefreshBatch
    \/ RefreshDone
    \/ BatchOpen
    \/ FetchTicker(RefreshOutcomes)
    \/ BatchClose

SpecRefresh == InitRefresh /\ [][NextRefresh]_vars

----------------------------------------------------------------------------
(* Properties of the Refresh Scheduler and of the loop *)

\* ceil(n / d)
Ceil(n, d) == (n + d - 1) \div d

\* the tickers of the prices table
TrackedUniverse(t) == {r.ticker : r \in t.prices}

\* the places of the batches a symbol is at
PlacesOf(calls, sym) ==
    {<<k, j>> \in (1..Len(calls)) \X (1..BATCH_SIZE) :
        j <= Len(calls[k]) /\ calls[k][j] = sym}

\* C11: when refresh_all_tickers has returned, the Batch Fetcher was called
\* ceil(n / BATCH_SIZE) times for the n tickers of prices, each time with 1 to
\* BATCH_SIZE tickers, every ticker of prices being at exactly one place of
\* the batches and nothing else in them; for n = 0 there was no call and the
\* tables are as they were.
C11_Partition ==
    (pc = "sleep" /\ iter.refresh_calls = 1) =>
        LET calls == iter.batch_calls
            U == TrackedUniverse(db.disk)
        IN  /\ Len(calls) = Ceil(Cardinality(U), BATCH_SIZE)
            /\ \A k \in 1..Len(calls) : Len(calls[k]) \in 1..BATCH_SIZE
            /\ \A sym \in U : Cardinality(PlacesOf(calls, sym)) = 1
            /\ \A k \in 1..Len(calls) : Range(calls[k]) \subseteq U
            /\ U = {} => (db.disk = EmptyTables /\ db.view = EmptyTables)

\* C11 witness: a refresh of 2 * BATCH_SIZE + 1 tickers has returned after
\* three calls, the last with the one ticker left, and every row was rewritten.
C11_Witness ==
    /\ pc = "sleep"
    /\ iter.refresh_calls = 1
    /\ Cardinality(TrackedUniverse(db.disk)) = 2 * BATCH_SIZE + 1
    /\ Len(iter.batch_calls) = 3
    /\ Len(iter.batch_calls[3]) = 1
    /\ \A r \in db.disk.prices : r.close = Num(2)

\* the step is the return of refresh_all_tickers to run_daemon
RefreshReturns == pc = "refresh_loop" /\ pc' \in {"loop", "sleep"}

\* C12, one step: run_daemon begins with the Refresh Scheduler and enters its
\* loop only when that one call has returned; an iteration, once it has its
\* query's result, calls the Refresh Scheduler exactly when the result is
\* empty and REFRESH_INTERVAL seconds have passed since last_refresh_time;
\* nothing else calls it; every return of it sets last_refresh_time to the
\* clock, and nothing else but a restart of the process changes that.
C12_Step ==
    /\ (pc = "init" /\ pc' \notin {pc, "main"}) =>
          (pc' = "refresh" /\ iter'.refresh_calls = 0)
    /\ (pc' = "loop" /\ pc # "loop") =>
          \/ pc = "sleep"
          \/ pc = "refresh_loop" /\ refresh_ret = "init" /\ iter.refresh_calls = 1
    /\ (pc = "branch" /\ pc' \notin {"branch", "main"}) =>
          (pc' = "refresh" <=>
              (requests = <<>> /\ now - last_refresh_time >= REFRESH_INTERVAL))
    /\ (pc' = "refresh" /\ pc # "refresh") => pc \in {"init", "branch"}
    /\ RefreshReturns => last_refresh_time' = now
    /\ last_refresh_time' # last_refresh_time => (RefreshReturns \/ pc' = "main")

\* C12: the Refresh Scheduler runs once before the loop, and in the loop in
\* exactly the iterations that find no request and find the refresh interval
\* reached; each run records the time of its end as the last refresh.
C12_RefreshTrigger == [][C12_Step]_vars

\* C12 witness: an iteration at the moment the interval is reached has run
\* the Refresh Scheduler, over an empty universe, and the time is recorded.
C12_Witness ==
    /\ pc = "sleep"
    /\ iter.refresh_calls = 1
    /\ iter.batch_calls = <<>>
    /\ requests = <<>>
    /\ db.disk.prices = {}
    /\ now = REFRESH_INTERVAL
    /\ last_refresh_time = REFRESH_INTERVAL

\* every ticker of the other tables is a ticker of prices
Referential(t) ==
    \A tb \in StoreTables : \A r \in t[tb] : r.ticker \in TrackedUniverse(t)

\* C13: in every committed state of the store, every ticker with a row in
\* stocks, price_history, balance_sheet, income_statement or
\* cashflow_statement has a row in prices.
C13_TrackedUniverse == Referential(db.disk)

\* C13 witness: a ticker's fundamentals failed after its balance sheet was
\* written, the batch is over, and what is committed is the ticker's balance
\* sheet row without an income statement row, with its prices row.
C13_Witness ==
    /\ pc = "caller"
    /\ db.disk.balance_sheet # {}
    /\ db.disk.income_statement = {}
    /\ \A r \in db.disk.balance_sheet : r.ticker \in TrackedUniverse(db.disk)

\* the step is the writes of an iteration in the batch of the requests
OnDemandFetch == AtWrite /\ batch_ret = "sleep"

\* the step is the end of the loop iteration that served the requests
OnDemandEnds == pc = "ticker" /\ batch_ret = "sleep" /\ pc' = "sleep"

\* the ticker in hand is in prices and in stocks after the step
Onboarded ==
    /\ \E r \in db'.view.prices : r.ticker = tickers[pos]
    /\ \E r \in db'.view.stocks : r.ticker = tickers[pos]

\* the step is the writes of a request iteration for a ticker new to prices
NewOnDemand == OnDemandFetch /\ tickers[pos] \notin TrackedUniverse(db.view)

\* one step of the daemon, apart from the fate of the new ticker: the batch of
\* a request iteration is the requests' tickers in upper case; a ticker with a
\* price goes on to its info; a ticker of prices stays one; the iteration
\* ends with all of it committed and the request rows gone; a full refresh
\* selects every ticker of prices and has, when it returns, had each of them
\* in a batch.
C14_Around ==
    /\ (pc \in {"ticker"} \cup IterationPlaces /\ batch_ret = "sleep") =>
          tickers = UpperAll(RequestTickers(requests))
    /\ (AtTicker /\ (pc' \notin {pc, "main"} \/ pos' = pos + 1)
                 /\ YieldsPrice(fetched'.t)) => pc' = "info"
    /\ pc' # "main" => TrackedUniverse(db.view) \subseteq TrackedUniverse(db'.view)
    /\ TrackedUniverse(db.disk) \subseteq TrackedUniverse(db'.disk)
    /\ OnDemandEnds =>
          /\ db'.disk = db.view
          /\ \A j \in 1..Len(requests) :
                \A r \in db'.disk.update_requests : r.id # requests[j].id
    /\ (pc = "refresh" /\ pc' = "refresh_loop") =>
          Range(universe') = TrackedUniverse(db.disk)
    /\ RefreshReturns =>
          \A sym \in Range(universe) : PlacesOf(iter.batch_calls, sym) # {}

\* C14, one step: as C14_Around has it, and a requested ticker that is not in
\* prices gets its prices row and its stocks row when the provider yields its
\* price and its info with a share count; when the provider yields the price
\* and t.info raises or has None for the shares, the step writes nothing.
C14_Step ==
    /\ C14_Around
    /\ (NewOnDemand /\ Healthy(fetched.t)) => Onboarded
    /\ (NewOnDemand /\ YieldsPrice(fetched.t) /\ InfoFails(fetched.t.info)) =>
          (db' = db /\ pc' = "ticker")

\* C14: a requested ticker that is new to prices and has a price and its info
\* is, at the end of the iteration that found the request, in prices and
\* stocks with the request row gone, and is in a batch of every full refresh
\* from then on; with a price and no info it gets no row, and its request row
\* is gone all the same.
C14_Onboarding == [][C14_Step]_vars

\* C14 as stated, one step: a requested ticker that is not in prices gets its
\* prices row and its stocks row whenever the provider yields a price for it.
C14_OriginalStep ==
    /\ C14_Around
    /\ (NewOnDemand /\ YieldsPrice(fetched.t)) => Onboarded

\* C14 as stated: a requested ticker that is new to prices and for which the
\* provider yields a price is, at the end of the iteration that found the
\* request, in prices and stocks with the request row gone, and is in a batch
\* of every full refresh from then on.
C14_Original == [][C14_OriginalStep]_vars

\* C14 witness: the request for bbb was served, BBB is in prices and stocks,
\* no request row is left, and a periodic refresh that had BBB in its batch
\* is about to return.
C14_Witness ==
    /\ pc = "refresh_loop"
    /\ refresh_ret = "periodic"
    /\ off >= Len(universe)
    /\ universe = <<"BBB">>
    /\ iter.batch_calls = << <<"BBB">> >>
    /\ \E id \in DOMAIN handed : handed[id] = 1
    /\ db.disk.update_requests = {}
    /\ \E r \in db.disk.prices : r.ticker = "BBB"
    /\ \E r \in db.disk.stocks : r.ticker = "BBB"

\* C15: at the sleep of an iteration that served requests or ran a periodic
\* full refresh the interval is SLEEP_ACTIVE.
C15_ResetOnActivity ==
    (pc = "sleep" /\ (requests # <<>> \/ iter.refresh_calls >= 1)) =>
        sleep_time = SLEEP_ACTIVE

\* C16: every stocks row has discount_rate = rf + beta * (rm - rf), beta
\* being the row's beta when the provider gave one, 0 included, and 1 when it
\* gave none, with growth_rate 0.03 and tax_rate 0.21.
C16_DiscountRate ==
    \A r \in db.view.stocks :
        /\ r.discount_rate =
              Num(rf + (IF r.beta = Null THEN 1 ELSE r.beta[1]) * (rm - rf))
        /\ r.growth_rate = growth_rate
        /\ r.tax_rate = tax_rate

\* the step is a commit of a writer other than the daemon
WriterCommits ==
    db'.disk.sqlite_sequence.update_requests # db.disk.sqlite_sequence.update_requests

\* the ids the current iteration selected
Selected == Range(RequestIds(requests))

\* C17, one step: but for a writer's insert, what is committed of
\* update_requests only loses rows, and so does what the daemon's connection
\* sees unless the process restarts; a lost row is one the iteration
\* selected, with processed = 0; a row with another processed stays.
C17_Step ==
    /\ ~WriterCommits =>
          /\ db'.disk.update_requests \subseteq db.disk.update_requests
          /\ pc' # "main" => db'.view.update_requests \subseteq db.view.update_requests
    /\ \A r \in db.disk.update_requests \ db'.disk.update_requests :
          r.id \in Selected /\ r.processed = 0
    /\ \A r \in db.view.update_requests \ db'.view.update_requests :
          r.id \in Selected /\ r.processed = 0
    /\ \A r \in db.disk.update_requests :
          r.processed # 0 => r \in db'.disk.update_requests

\* C17: the daemon changes update_requests only by deleting rows it selected
\* in the same iteration: it inserts no row, changes no field of a row, and
\* deletes no row it did not select.
C17_OnlyDeletes == [][C17_Step]_vars

\* C17 witness: an iteration has deleted the row it selected, and an older
\* row with processed = 1 is still in the table as it was inserted.
C17_Witness ==
    /\ pc = "sleep"
    /\ requests # <<>>
    /\ \A id \in Selected : \A r \in db.disk.update_requests : r.id # id
    /\ \E r \in db.disk.update_requests :
          /\ r.processed = 1
          /\ r.ticker = requests[1].ticker
          /\ r.id < requests[1].id

----------------------------------------------------------------------------
(* The daemon as long as the process lives *)

\* a step of run_daemon or of what it calls, the provider answering from
\* Outcomes
DaemonStep(Outcomes) ==
    \/ StartRefresh
    \/ RefreshSelect
    \/ RefreshBatch
    \/ RefreshDone
    \/ BatchOpen
    \/ FetchTicker(Outcomes)
    \/ BatchClose
    \/ LoopSelect
    \/ Dequeue
    \/ DequeueCommit
    \/ PeriodicRefresh
    \/ Idle
    \/ Sleep

NextRun ==
    \/ DaemonStep(LoopOutcomes)
    \/ InsertRequest
    \/ TimePasses(TICK, MaxTicks * TICK)

\* the daemon with writers and the clock, the process never killed
SpecRun == Init /\ [][NextRun]_vars

\* what the provider answers where the loop's progress is what matters
LiveOutcomes == {Priced(1)}

\* the clock goes from the start to the moment the refresh is due
NextLive ==
    \/ DaemonStep(LiveOutcomes)
    \/ InsertRequest
    \/ TimePasses(REFRESH_INTERVAL, REFRESH_INTERVAL)

\* the daemon never killed and its loop never stopping: every call returns
\* and every sleep ends
SpecLive == Init /\ [][NextLive]_vars /\ WF_vars(DaemonStep(LiveOutcomes))

\* the ids of the rows that were inserted and are gone
Deleted(t) ==
    {id \in 1..t.sqlite_sequence.update_requests :
        \A r \in t.update_requests : r.id # id}

\* C18, one step: a committed row goes only in the step that hands the
\* iteration's tickers, the row's among them, to the Batch Fetcher, and only
\* if the iteration selected it; a row it did not select, inserted after the
\* SELECT then, stays; every row that is gone was handed over.
C18_Step ==
    /\ \A r \in db.disk.update_requests \ db'.disk.update_requests :
          /\ r.id \in Selected
          /\ pc' = "batch" /\ batch_ret' = "sleep"
          /\ \E j \in 1..Len(tickers') : tickers'[j] = r.ticker
    /\ \A r \in db.disk.update_requests :
          r.id \notin Selected => r \in db'.disk.update_requests
    /\ \A id \in Deleted(db'.disk) : handed'[id] = 1

\* C18: with writers inserting at any point of the loop and the process
\* never killed, a request row is deleted only if its ticker is in the list
\* given to the Batch Fetcher in that iteration, and a row inserted between
\* the SELECT and the DELETE stays pending.
C18_NoLostRequest == [][C18_Step]_vars

\* C18 witness: the DELETEs of the selected rows are executed, and a pending
\* row for the same ticker, inserted after the SELECT, is still there.
C18_Witness ==
    /\ pc = "dequeued"
    /\ \E r \in db.view.update_requests :
          /\ r.processed = 0
          /\ r.id \notin Selected
          /\ r.ticker = requests[1].ticker

\* SLEEP_ACTIVE <= sleep_time <= SLEEP_IDLE
InBounds(s) == SLEEP_ACTIVE <= s /\ s <= SLEEP_IDLE

\* the step is an idle iteration: it found no request and no refresh due
IdleIteration == pc = "branch" /\ pc' = "sleep"

\* C19, one step: the interval is within the bounds after the step, and an
\* idle iteration does not shorten it.
C19_Step ==
    /\ InBounds(sleep_time')
    /\ IdleIteration => sleep_time' >= sleep_time

\* C19: in every state of run_daemon the sleep interval is between
\* SLEEP_ACTIVE and SLEEP_IDLE, and no idle iteration decreases it.
C19_IntervalBounds == InBounds(sleep_time) /\ [][C19_Step]_vars

\* C19 witness: idle iterations after a request have lengthened the interval
\* step by step up to SLEEP_IDLE, where one more has left it.
C19_Witness ==
    /\ pc = "sleep"
    /\ idle.from = "request"
    /\ idle.n = MaxIdleRun
    /\ sleep_time = SLEEP_IDLE

\* the request row with the id is in the table with processed = 0
PendingId(id) == \E r \in db.disk.update_requests : r.id = id /\ r.processed = 0

\* C20, one step: the loop's query selects every committed row with
\* processed = 0; an iteration that selected rows goes on to delete them,
\* whether a refresh is due or not, and then gives the tickers of all of them
\* to the Batch Fetcher.
C20_Step ==
    /\ (pc = "loop" /\ pc' = "branch") =>
          \A r \in db.disk.update_requests :
              r.processed = 0 => r.id \in Range(RequestIds(requests'))
    /\ (pc = "branch" /\ requests # <<>> /\ pc' # pc) => pc' = "dequeued"
    /\ (pc = "dequeued" /\ pc' # pc) =>
          /\ pc' = "batch"
          /\ tickers' = RequestTickers(requests)
          /\ \A id \in Selected : handed'[id] = 1

\* C20: the loop never stopping, every request inserted with processed = 0
\* is in time dequeued and its ticker given to the Batch Fetcher, by the
\* first iteration whose query runs after the insert, however many requests
\* there are and whether or not a refresh is due.
C20_EventuallyServiced ==
    /\ [][C20_Step]_vars
    /\ \A id \in 1..MaxRequests : PendingId(id) ~> (handed[id] = 1)

\* C20 witness: an iteration that found two requests when a refresh was due
\* has given both to the Batch Fetcher.
C20_Witness ==
    /\ pc = "sleep"
    /\ Len(requests) = 2
    /\ \A id \in Selected : handed[id] = 1
    /\ RefreshDue
    /\ iter.refresh_calls = 0

----------------------------------------------------------------------------
(* The making of the store: the program started, and init_db called by     *)
(* hand, over what may be at the database's path, with kills at every step *)

\* stores tickers and requests are in already
MaxStored == 2

\* the tables with n tickers tracked and a request for the last of them
Stored(n) ==
    LET r == WithNextId(Tracked(n), "update_requests",
                        [ticker |-> Name(n), requested_at |-> 0, processed |-> 0])
    IN  InsertOrReplace(r.tables, "update_requests", r.row)

\* the file of an init_db that was killed after its k-th CREATE TABLE, in
\* which a writer has put a request since
Partial(k) ==
    LET r == WithNextId(EmptyTables, "update_requests",
                        [ticker |-> "AAA", requested_at |-> 0, processed |-> 0])
        t == InsertOrReplace(r.tables, "update_requests", r.row)
    IN  [NewStore EXCEPT !.tables = {Schema[j] : j \in 1..k}, !.disk = t, !.view = t]

\* what may be at the database's path when the program starts: no file, a
\* new file, a file with rows in it, or a file that lacks its later tables
StoresBefore ==
    {NoStore, NewStore}
    \cup {[NewStore EXCEPT !.disk = Stored(n), !.view = Stored(n)] :
             n \in 1..MaxStored}
    \cup {Partial(k) : k \in 3..(Len(Schema) - 1)}

\* what the provider answers in this specification
StoreOutcomes == {Statements(FALSE, FALSE, FALSE)}

InitStore ==
    /\ db \in StoresBefore
    /\ now = 0
    /\ pc = "main"
    /\ sleep_time = SLEEP_IDLE
    /\ last_refresh_time = 0
    /\ requests = <<>>
    /\ tickers = <<>>
    /\ pos = 0
    /\ batch_ret = ""
    /\ universe = <<>>
    /\ off = 0
    /\ refresh_ret = ""
    /\ handed = [id \in 1..MaxRequests |-> 0]
    /\ iter = NoIter
    /\ idle = NoIdle
    /\ fetched = NoFetch
    /\ probe = NoData
    /\ setup = NoSetup
    /\ tickers_db \in BOOLEAN

NextStore ==
    \/ Main
    \/ CallInitDb
    \/ InitDbEnter
    \/ InitDbConnect
    \/ InitDbCreate
    \/ InitDbReturn
    \/ MainInitNasdaqDb
    \/ CallInitNasdaqDb
    \/ InitNasdaqDb
    \/ NasdaqDownload
    \/ DaemonStep(StoreOutcomes)
    \/ TimePasses(REFRESH_INTERVAL, REFRESH_INTERVAL)
    \/ CrashRestart

SpecStore == InitStore /\ [][NextStore]_vars

====
